---- MODULE Spec2Model ----
(***************************************************************************)
(* Model of the Aadhaar data cleaning pipeline (scripts/data_cleaning.py)   *)
(* and of the server that answers queries over its output                  *)
(* (scripts/api_server.py).                                                *)
(*                                                                         *)
(* A CSV cell is a sequence: a text cell is the sequence of its characters *)
(* (or, for region names, of its tokens: a name or a blank), a numeric     *)
(* cell is a 1-tuple, and the empty cell, which read_csv turns into NaN,   *)
(* is the empty sequence.  A DataFrame is a record of its column set and   *)
(* its sequence of rows; a row is a function from column names to cells.   *)
(***************************************************************************)
EXTENDS Integers, Sequences, FiniteSets, TLC

VARIABLES entry, pc, kind, step, files, idx, all_data, stats, combined_df,
          last_file, out_files, cleaning_report, report_out, progress, error,
          listing, data_cache, loaded, api_pc, response

\* the state of the cleaner and the directory of canonical files
cleaner_vars ==
  <<entry, pc, kind, step, files, idx, all_data, stats, combined_df,
    last_file, out_files, cleaning_report, report_out, progress, error,
    listing>>

\* the state of the server process
api_vars == <<data_cache, loaded, api_pc, response>>

vars == <<cleaner_vars, api_vars>>

(***************************************************************************)
(* Bounds                                                                  *)
(***************************************************************************)
\* files in a kind's directory / rows in a file, when a clean_* method is
\* called on its own
MaxFiles == 2
MaxRows == 2
\* the same, when the three kinds are chained by run()
MaxRunFiles == 1
MaxRunRows == 1
\* the same, when the files of the directory are fixed before the cleaner
\* starts
MaxListedFiles == 2
MaxListedRows == 1

(***************************************************************************)
(* Kinds and column layouts                                                *)
(***************************************************************************)
Kinds == <<"enrolment", "demographic", "biometric">>

KindSet == {Kinds[i] : i \in 1..Len(Kinds)}

BaseCols == {"date", "state", "district", "pincode"}

age_cols(k) ==
  CASE k = "enrolment" -> <<"age_0_5", "age_5_17", "age_18_greater">>
    [] k = "demographic" -> <<"demo_age_5_17", "demo_age_17_">>
    [] k = "biometric" -> <<"bio_age_5_17", "bio_age_17_">>

total_col(k) ==
  CASE k = "enrolment" -> "total_enrollments"
    [] k = "demographic" -> "total_demographic_updates"
    [] k = "biometric" -> "total_biometric_updates"

Range(s) == {s[i] : i \in 1..Len(s)}

AgeColSet(k) == Range(age_cols(k))

\* the fixed input layout of a kind
Layout(k) == BaseCols \cup AgeColSet(k)

DerivedCols(k) == {total_col(k), "year", "month", "day_of_week"}

valid_states ==
  { <<n>> : n \in
    {"Andhra Pradesh", "Arunachal Pradesh", "Assam", "Bihar", "Chhattisgarh",
     "Goa", "Gujarat", "Haryana", "Himachal Pradesh", "Jharkhand", "Karnataka",
     "Kerala", "Madhya Pradesh", "Maharashtra", "Manipur", "Meghalaya", "Mizoram",
     "Nagaland", "Odisha", "Punjab", "Rajasthan", "Sikkim", "Tamil Nadu",
     "Telangana", "Tripura", "Uttar Pradesh", "Uttarakhand", "West Bengal",
     "Andaman and Nicobar Islands", "Chandigarh", "Dadra and Nagar Haveli",
     "Daman and Diu", "Delhi", "Jammu and Kashmir", "Ladakh", "Lakshadweep",
     "Puducherry"} }

(***************************************************************************)
(* Cells and the library conversions the cleaner applies to them           *)
(***************************************************************************)
NaN == <<>>

isna(c) == c = NaN

Whitespace == {" "}

Digits == {"0", "1", "2", "3", "4", "5", "6", "7", "8", "9"}

RECURSIVE LStrip(_)
LStrip(s) ==
  IF s # <<>> /\ Head(s) \in Whitespace THEN LStrip(Tail(s)) ELSE s

RECURSIVE RStrip(_)
RStrip(s) ==
  IF s # <<>> /\ s[Len(s)] \in Whitespace
    THEN RStrip(SubSeq(s, 1, Len(s) - 1))
    ELSE s

\* Series.str.strip(): NaN stays NaN
str_strip(c) == IF isna(c) THEN NaN ELSE RStrip(LStrip(c))

Upper(ch) ==
  CASE ch = "s" -> "S" [] ch = "o" -> "O" [] ch = "u" -> "U"
    [] ch = "t" -> "T" [] ch = "h" -> "H" [] OTHER -> ch

Lower(ch) ==
  CASE ch = "S" -> "s" [] ch = "O" -> "o" [] ch = "U" -> "u"
    [] ch = "T" -> "t" [] ch = "H" -> "h" [] OTHER -> ch

IsLetter(ch) == Upper(ch) # Lower(ch)

\* Series.str.title(): a letter is upper-cased when no letter precedes it,
\* lower-cased otherwise
str_title(c) ==
  IF isna(c) THEN NaN
  ELSE [i \in 1..Len(c) |->
          IF i = 1 \/ ~IsLetter(c[i - 1]) THEN Upper(c[i]) ELSE Lower(c[i])]

\* Series.str.match(r'^\d{6}$') on a column of strings
match_pincode(s) == Len(s) = 6 /\ \A i \in 1..6 : s[i] \in Digits

IsLeap(y) == (y % 4 = 0 /\ y % 100 # 0) \/ y % 400 = 0

DaysInMonth(m, y) ==
  CASE m \in {4, 6, 9, 11} -> 30
    [] m = 2 -> IF IsLeap(y) THEN 29 ELSE 28
    [] OTHER -> 31

NaT == <<>>

\* pd.to_datetime(format='%d-%m-%Y', errors='coerce') of one cell: the text
\* is three numbers separated by dashes, read as day, month, year; the
\* result is the timestamp <<year, month, day>> or NaT
to_datetime(c) ==
  IF isna(c) THEN NaT
  ELSE LET d == c[1]
           m == c[2]
           y == c[3]
       IN IF /\ y \in 1000..9999
             /\ m \in 1..12
             /\ d >= 1
             /\ d <= DaysInMonth(m, y)
            THEN <<y, m, d>>
            ELSE NaT

\* order of timestamps
DateLT(a, b) ==
  \/ a[1] < b[1]
  \/ a[1] = b[1] /\ a[2] < b[2]
  \/ a[1] = b[1] /\ a[2] = b[2] /\ a[3] < b[3]

DateLE(a, b) == a = b \/ DateLT(a, b)

MonthOffset == <<0, 3, 2, 5, 0, 3, 5, 1, 4, 6, 2, 4>>

DayNames == <<"Sunday", "Monday", "Tuesday", "Wednesday", "Thursday",
              "Friday", "Saturday">>

\* Series.dt.day_name()
day_name(t) ==
  LET y == IF t[2] < 3 THEN t[1] - 1 ELSE t[1]
      w == (y + (y \div 4) - (y \div 100) + (y \div 400)
              + MonthOffset[t[2]] + t[3]) % 7
  IN DayNames[w + 1]

(***************************************************************************)
(* Source files                                                            *)
(***************************************************************************)
\* a source file: whether read_csv can read it, the columns of its header
\* and its rows; a cell under a column the header lacks is never looked at
UnreadableFile == [readable |-> FALSE, columns |-> {}, rows |-> <<>>]

MkRow(k, date, state, district, pincode, counts) ==
  [c \in Layout(k) |->
     CASE c = "date" -> date
       [] c = "state" -> state
       [] c = "district" -> district
       [] c = "pincode" -> pincode
       [] OTHER -> counts[CHOOSE i \in 1..Len(age_cols(k)) : age_cols(k)[i] = c]]

Mar1 == <<1, 3, 2025>>
Jan2 == <<2, 1, 2025>>
Feb31 == <<31, 2, 2025>>

Delhi == <<"Delhi">>
DelhiPadded == <<" ", "Delhi", " ">>
Goa == <<"Goa">>
Atlantis == <<"Atlantis">>

south == <<"s", "o", "u", "t", "h">>
SOUTHPadded == <<" ", "S", "O", "U", "T", "H">>
South == <<"S", "o", "u", "t", "h">>

Pin110001 == <<"1", "1", "0", "0", "0", "1">>
Pin403001 == <<"4", "0", "3", "0", "0", "1">>
Pin1100 == <<"1", "1", "0", "0">>

\* the observation of the spec's scenario and a second, earlier one
RowA(k) ==
  MkRow(k, Mar1, Delhi, south, Pin110001,
        IF k = "enrolment" THEN <<<<5>>, <<3>>, <<2>>>> ELSE <<<<5>>, <<3>>>>)

RowB(k) ==
  MkRow(k, Jan2, Goa, South, Pin403001,
        IF k = "enrolment" THEN <<<<0>>, <<1>>, <<0>>>> ELSE <<<<0>>, <<1>>>>)

\* a row rejected for its region only
RowBad(k) == [RowA(k) EXCEPT !["state"] = Atlantis]

\* raw rows a file of a kind is made of, when the kind is cleaned on its own
Pool(k) ==
  CASE k = "enrolment" ->
         { RowA(k),
           \* the observation of RowA, spelled differently
           MkRow(k, Mar1, DelhiPadded, SOUTHPadded, Pin110001, <<<<5>>, <<3>>, <<2>>>>),
           \* two empty cells
           MkRow(k, Mar1, Delhi, NaN, Pin110001, <<<<5>>, NaN, <<2>>>>) }
    [] k = "demographic" ->
         { RowA(k), RowB(k),
           \* two negative counts
           MkRow(k, Mar1, Delhi, south, Pin110001, <<<<-1>>, <<-1>>>>) }
    [] k = "biometric" ->
         { RowA(k),
           \* no postal code
           MkRow(k, Jan2, Goa, South, NaN, <<<<0>>, <<1>>>>),
           \* bad date, bad region, bad postal code and a negative count
           MkRow(k, Feb31, Atlantis, south, Pin1100, <<<<-1>>, <<3>>>>) }

\* raw rows a file is made of when the three kinds are chained by run()
RunPool(k) ==
  CASE k = "enrolment" -> {RowA(k), RowBad(k)}
    [] k = "demographic" -> {RowB(k), RowBad(k)}
    [] k = "biometric" -> {RowA(k), RowB(k)}

\* the column a file's header may lack
MissingColChoices(k) == {age_cols(k)[Len(age_cols(k))]}

SeqUpTo(S, n) == UNION {[1..m -> S] : m \in 0..n}

Blank(rows, c) == [i \in 1..Len(rows) |-> [rows[i] EXCEPT ![c] = NaN]]

\* the files a directory of kind k may hold
FileSpace(k, pool, maxrows) ==
  {UnreadableFile}
    \cup {[readable |-> TRUE, columns |-> Layout(k), rows |-> rs] :
            rs \in SeqUpTo(pool, maxrows)}
    \cup UNION {{[readable |-> TRUE, columns |-> Layout(k) \ {c},
                  rows |-> Blank(rs, c)] :
                   rs \in SeqUpTo({RowA(k)}, maxrows)} :
                c \in MissingColChoices(k)}

(***************************************************************************)
(* pd.read_csv: the dtype of a column follows from all its cells           *)
(***************************************************************************)
IsIntText(c) == c # <<>> /\ \A i \in 1..Len(c) : c[i] \in Digits

Column(rows, c) == [i \in 1..Len(rows) |-> rows[i][c]]

\* dtype of a column of digits: int64 when every cell is an integer,
\* float64 when some cell is empty and the others are integers, object
\* when some cell is other text (or when the file has no row)
NumericDtype(col) ==
  IF col = <<>> \/ \E i \in 1..Len(col) : ~isna(col[i]) /\ ~IsIntText(col[i])
    THEN "object"
    ELSE IF \E i \in 1..Len(col) : isna(col[i]) THEN "float64" ELSE "int64"

\* dtype of a column of text: object, unless every cell of a file with rows
\* is empty, which makes the column float64 (all NaN)
TextDtype(col) ==
  IF col # <<>> /\ \A i \in 1..Len(col) : isna(col[i])
    THEN "float64"
    ELSE "object"

RECURSIVE DropLeadingZeros(_)
DropLeadingZeros(s) ==
  IF Len(s) > 1 /\ Head(s) = "0" THEN DropLeadingZeros(Tail(s)) ELSE s

\* Series.astype(str) of one cell of a column of the given dtype
astype_str(c, dtype) ==
  CASE dtype = "int64" -> DropLeadingZeros(c)
    [] dtype = "float64" ->
         IF isna(c) THEN <<"n", "a", "n">>
         ELSE DropLeadingZeros(c) \o <<".", "0">>
    [] OTHER -> IF isna(c) THEN <<"n", "a", "n">> ELSE c

(***************************************************************************)
(* Record Normalizer: the body of the per-file loop of clean_*_data        *)
(***************************************************************************)
\* mask.sum(): the number of True entries of a boolean column
mask_sum(mask) == Cardinality({i \in 1..Len(mask) : mask[i]})

RECURSIVE IndexFrom(_, _, _)
IndexFrom(rows, mask, i) ==
  IF i > Len(rows) THEN <<>>
  ELSE IF mask[i] THEN <<rows[i]>> \o IndexFrom(rows, mask, i + 1)
  ELSE IndexFrom(rows, mask, i + 1)

\* df[mask]: the rows whose mask entry is True
boolean_index(rows, mask) == IndexFrom(rows, mask, 1)

\* df[c] = values
assign(rows, c, values) ==
  [i \in 1..Len(rows) |-> [rows[i] EXCEPT ![c] = values[i]]]

RECURSIVE SumSeq(_)
SumSeq(s) == IF s = <<>> THEN 0 ELSE Head(s) + SumSeq(Tail(s))

ZeroTally ==
  [invalid_dates |-> 0, invalid_states |-> 0, invalid_pincodes |-> 0,
   negative_values |-> 0, missing_values |-> 0]

\* clean_enrolment_data indexes every age column; the other two cleaners
\* skip an age column the file lacks (if col in df.columns)
guards_age_cols(k) == k # "enrolment"

is_negative(r, col) == ~isna(r[col]) /\ r[col][1] < 0

\* the state of one pass of the loop: the exception raised so far, the
\* frame, the dtypes read_csv gave its columns, and the amounts the pass
\* has added to the tallies
FileFailure(e) ==
  [error |-> e, columns |-> {}, rows |-> <<>>, dtypes |-> <<>>,
   original_count |-> 0, added |-> ZeroTally]

\* df = pd.read_csv(file); original_count = len(df)
read_csv(file) ==
  IF ~file.readable THEN FileFailure("ParserError")
  ELSE [error |-> "none", columns |-> file.columns, rows |-> file.rows,
        dtypes |-> [c \in file.columns |->
                      IF c = "pincode" THEN NumericDtype(Column(file.rows, c))
                      ELSE TextDtype(Column(file.rows, c))],
        original_count |-> Len(file.rows), added |-> ZeroTally]

\* stage 1: parse the date, count and drop the rows it does not parse for
stage_date(s) ==
  IF s.error # "none" THEN s
  ELSE IF "date" \notin s.columns THEN FileFailure("KeyError")
  ELSE
  LET parsed == assign(s.rows, "date",
                  [i \in 1..Len(s.rows) |-> to_datetime(s.rows[i]["date"])])
      isna_mask == [i \in 1..Len(s.rows) |-> to_datetime(s.rows[i]["date"]) = NaT]
  IN [s EXCEPT !.added.invalid_dates = mask_sum(isna_mask),
               !.rows = boolean_index(parsed,
                          [i \in 1..Len(isna_mask) |-> ~isna_mask[i]])]

\* stage 2: trim the region, count and drop the rows outside valid_states;
\* .str exists only on a column of strings
stage_state(s) ==
  IF s.error # "none" THEN s
  ELSE IF "state" \notin s.columns THEN FileFailure("KeyError")
  ELSE IF s.dtypes["state"] # "object" THEN FileFailure("AttributeError")
  ELSE
  LET stripped == assign(s.rows, "state",
                    [i \in 1..Len(s.rows) |-> str_strip(s.rows[i]["state"])])
      isin == [i \in 1..Len(s.rows) |-> str_strip(s.rows[i]["state"]) \in valid_states]
  IN [s EXCEPT !.added.invalid_states = mask_sum([i \in 1..Len(isin) |-> ~isin[i]]),
               !.rows = boolean_index(stripped, isin)]

\* stage 3: postal code as a trimmed string, count and drop the rows that
\* are not six digits
stage_pincode(s) ==
  IF s.error # "none" THEN s
  ELSE IF "pincode" \notin s.columns THEN FileFailure("KeyError")
  ELSE
  LET as_str == [i \in 1..Len(s.rows) |->
                   str_strip(astype_str(s.rows[i]["pincode"], s.dtypes["pincode"]))]
      valid_pincode == [i \in 1..Len(as_str) |-> match_pincode(as_str[i])]
  IN [s EXCEPT !.added.invalid_pincodes =
                 mask_sum([i \in 1..Len(valid_pincode) |-> ~valid_pincode[i]]),
               !.rows = boolean_index(assign(s.rows, "pincode", as_str),
                                      valid_pincode)]

\* stage 4: trim and title-case the sub-region
stage_district(s) ==
  IF s.error # "none" THEN s
  ELSE IF "district" \notin s.columns THEN FileFailure("KeyError")
  ELSE IF s.dtypes["district"] # "object" THEN FileFailure("AttributeError")
  ELSE [s EXCEPT !.rows = assign(s.rows, "district",
          [i \in 1..Len(s.rows) |-> str_title(str_strip(s.rows[i]["district"]))])]

\* read_csv and stages 1 to 4: the frame the loop over age_cols starts from
stages_1_to_4(file) ==
  CHOOSE out \in
    {stage_district(s3) : s3 \in
    {stage_pincode(s2) : s2 \in
    {stage_state(s1) : s1 \in
    {stage_date(s0) : s0 \in {read_csv(file)}}}}} : TRUE

\* a pass that counts the rows negative in the column and leaves them in
negative_pass_keeps_rows(k, col, s) ==
  IF s.error # "none" THEN s
  ELSE IF col \notin s.columns
    THEN IF guards_age_cols(k) THEN s ELSE FileFailure("KeyError")
  ELSE [s EXCEPT !.added.negative_values =
          @ + mask_sum([i \in 1..Len(s.rows) |-> is_negative(s.rows[i], col)])]

\* stage 5, one pass of the loop over age_cols: count the rows negative in
\* the column and remove them
negative_pass(k, col, s) ==
  IF s.error # "none" THEN s
  ELSE IF col \notin s.columns
    THEN IF guards_age_cols(k) THEN s ELSE FileFailure("KeyError")
  ELSE
  LET negative_mask == [i \in 1..Len(s.rows) |-> is_negative(s.rows[i], col)]
  IN [s EXCEPT !.added.negative_values = @ + mask_sum(negative_mask),
               !.rows = boolean_index(s.rows,
                          [i \in 1..Len(negative_mask) |-> ~negative_mask[i]])]

\* stage 5: for col in age_cols, from the i-th column on
RECURSIVE negative_loop(_, _, _)
negative_loop(k, s, i) ==
  IF i > Len(age_cols(k)) THEN s
  ELSE CHOOSE out \in {negative_loop(k, t, i + 1) :
                         t \in {negative_pass(k, age_cols(k)[i], s)}} : TRUE

\* df.isnull().sum().sum(): the number of empty cells of the frame
missing_count(rows, columns) ==
  SumSeq([i \in 1..Len(rows) |->
            Cardinality({c \in columns : isna(rows[i][c])})])

\* df.dropna(): the rows without an empty cell
dropna(rows, columns) ==
  boolean_index(rows, [i \in 1..Len(rows) |-> \A c \in columns : ~isna(rows[i][c])])

\* stage 6: count the empty cells, drop the rows that have one
stage_missing(s) ==
  IF s.error # "none" THEN s
  ELSE [s EXCEPT !.added.missing_values = missing_count(s.rows, s.columns),
                 !.rows = dropna(s.rows, s.columns)]

\* one pass of the loop over the files of kind k: read_csv and the six
\* stages, each applied to the result of the one before.  The result holds
\* the exception raised, or the filtered frame with the amounts added to
\* the tallies.
clean_file(k, file) ==
  CHOOSE out \in
    {stage_missing(s5) : s5 \in
    {negative_loop(k, s4, 1) : s4 \in {stages_1_to_4(file)}}} : TRUE

(***************************************************************************)
(* Dataset Merger: the code after the loop of clean_*_data                 *)
(***************************************************************************)
Frame(columns, rows) == [columns |-> columns, rows |-> rows]

EmptyFrame == Frame({}, <<>>)

RECURSIVE Flatten(_)
Flatten(ss) == IF ss = <<>> THEN <<>> ELSE Head(ss) \o Flatten(Tail(ss))

\* a concatenation that keeps the columns of the first frame only
concat_first_columns(k, frames) ==
  LET columns == frames[1].columns
      Narrow(f) == [j \in 1..Len(f.rows) |->
                      [c \in Layout(k) |->
                         IF c \in f.columns \cap columns THEN f.rows[j][c] ELSE NaN]]
  IN Frame(columns, Flatten([i \in 1..Len(frames) |-> Narrow(frames[i])]))

\* pd.concat(all_data, ignore_index=True): the columns are the union of the
\* frames' columns and a frame's rows get NaN under the columns it lacks
concat(k, frames) ==
  LET columns == UNION {frames[i].columns : i \in 1..Len(frames)}
      Widen(f) == [j \in 1..Len(f.rows) |->
                     [c \in Layout(k) |->
                        IF c \in f.columns THEN f.rows[j][c] ELSE NaN]]
  IN Frame(columns, Flatten([i \in 1..Len(frames) |-> Widen(frames[i])]))

\* DataFrame.duplicated(): a row is a duplicate when an earlier row has the
\* same cells in every column (NaN equals NaN here)
duplicated(rows, i) == \E j \in 1..(i - 1) : rows[j] = rows[i]

\* a count of every row that has an equal row, the first of them included
duplicates_count_keep_false(rows) ==
  Cardinality({i \in 1..Len(rows) :
                 \E j \in 1..Len(rows) : j # i /\ rows[j] = rows[i]})

\* combined_df.duplicated().sum()
duplicates_count(rows) ==
  Cardinality({i \in 1..Len(rows) : duplicated(rows, i)})

RECURSIVE KeepFirst(_, _)
KeepFirst(rows, i) ==
  IF i > Len(rows) THEN <<>>
  ELSE IF duplicated(rows, i) THEN KeepFirst(rows, i + 1)
  ELSE <<rows[i]>> \o KeepFirst(rows, i + 1)

\* a merge that keeps every row
keep_all_rows(rows) == rows

RECURSIVE KeepUnlessRepeated(_, _)
KeepUnlessRepeated(rows, i) ==
  IF i > Len(rows) THEN <<>>
  ELSE IF i > 1 /\ rows[i] = rows[i - 1] THEN KeepUnlessRepeated(rows, i + 1)
  ELSE <<rows[i]>> \o KeepUnlessRepeated(rows, i + 1)

\* a merge that drops a row only when it repeats the row right before it
drop_adjacent_duplicates(rows) == KeepUnlessRepeated(rows, 1)

\* DataFrame.drop_duplicates(): the first occurrence of every row is kept
drop_duplicates(rows) == KeepFirst(rows, 1)

\* sum of count cells as pandas adds columns: NaN if any addend is NaN
add_cells(cells) ==
  IF \E i \in 1..Len(cells) : isna(cells[i]) THEN NaN
  ELSE <<SumSeq([i \in 1..Len(cells) |-> cells[i][1]])>>

\* the derived columns of one row
derive_row(k, r) ==
  [c \in Layout(k) \cup DerivedCols(k) |->
     IF c \in Layout(k) THEN r[c]
     ELSE IF c = total_col(k)
       THEN add_cells([i \in 1..Len(age_cols(k)) |-> r[age_cols(k)[i]]])
     ELSE IF c = "year" THEN <<r["date"][1]>>
     ELSE IF c = "month" THEN <<r["date"][2]>>
     ELSE <<day_name(r["date"])>>]

add_derived(k, rows) == [i \in 1..Len(rows) |-> derive_row(k, rows[i])]

RECURSIVE InsertByDate(_, _)
InsertByDate(r, sorted) ==
  IF sorted = <<>> THEN <<r>>
  ELSE IF DateLT(r["date"], Head(sorted)["date"]) THEN <<r>> \o sorted
  ELSE <<Head(sorted)>> \o InsertByDate(r, Tail(sorted))

RECURSIVE SortFrom(_, _)
SortFrom(rows, i) ==
  IF i = 0 THEN <<>> ELSE InsertByDate(rows[i], SortFrom(rows, i - 1))

\* a merge whose sorted frame is not assigned back
sort_not_assigned(rows) == rows

\* DataFrame.sort_values('date'): ascending by timestamp; rows of one date
\* are kept in their order
sort_values(rows) == SortFrom(rows, Len(rows))

\* lines 109-130 of clean_enrolment_data and their copies: the exception
\* raised, or the canonical table and the number of duplicates removed
merger(k, frames) ==
  IF frames = <<>>
    THEN [error |-> "ValueError", df |-> EmptyFrame, duplicates |-> 0]
  ELSE
  LET combined == concat(k, frames)
      duplicates == duplicates_count(combined.rows)
      deduped == drop_duplicates(combined.rows)
  IN
  IF ~(AgeColSet(k) \subseteq combined.columns)
    THEN [error |-> "KeyError", df |-> EmptyFrame, duplicates |-> 0]
  ELSE [error |-> "none",
        df |-> Frame(combined.columns \cup DerivedCols(k),
                     sort_values(add_derived(k, deduped))),
        duplicates |-> duplicates]

(***************************************************************************)
(* Cleaning Report Builder                                                 *)
(***************************************************************************)
MinDate(rows) ==
  (CHOOSE i \in 1..Len(rows) :
     \A j \in 1..Len(rows) : DateLE(rows[i]["date"], rows[j]["date"]))

MaxDate(rows) ==
  (CHOOSE i \in 1..Len(rows) :
     \A j \in 1..Len(rows) : DateLE(rows[j]["date"], rows[i]["date"]))

\* the distinct values of the enrolment table alone
distinct_of_enrolment(tables, c) ==
  {tables["enrolment"].rows[i][c] : i \in 1..Len(tables["enrolment"].rows)}

\* set(enrol_df[c].unique()) | set(demo_df[c].unique()) | set(bio_df[c].unique())
Distinct(tables, c) ==
  UNION {{tables[k].rows[i][c] : i \in 1..Len(tables[k].rows)} : k \in KindSet}

\* Series.sum() skips NaN
SumTotals(k, rows) ==
  SumSeq([i \in 1..Len(rows) |->
            IF isna(rows[i][total_col(k)]) THEN 0 ELSE rows[i][total_col(k)][1]])

\* min() of an empty date column is NaT, whose strftime raises
summary_raises(tables) == \E k \in KindSet : tables[k].rows = <<>>

summary_stats(tables) ==
  [total_records_cleaned |->
     [k \in KindSet |-> Len(tables[k].rows)],
   date_range |->
     [k \in KindSet |->
        [start |-> tables[k].rows[MinDate(tables[k].rows)]["date"],
         end |-> tables[k].rows[MaxDate(tables[k].rows)]["date"]]],
   unique_locations |->
     [states |-> Cardinality(Distinct(tables, "state")),
      districts |-> Cardinality(Distinct(tables, "district")),
      pincodes |-> Cardinality(Distinct(tables, "pincode"))],
   totals |-> [k \in KindSet |-> SumTotals(k, tables[k].rows)]]

(***************************************************************************)
(* State                                                                   *)
(***************************************************************************)
InitStats ==
  [total_rows |-> 0, rows_cleaned |-> 0, duplicates_removed |-> 0,
   invalid_dates |-> 0, invalid_states |-> 0, invalid_pincodes |-> 0,
   negative_values |-> 0, missing_values |-> 0]

NoFn == [x \in {} |-> x]

NoError == [type |-> "none", kind |-> "none", file |-> 0]

\* run() chains the three cleaners; each cleaner is also a method of its own
EntryPoints == {"run"} \cup KindSet

MaxFilesOf(e) == IF e = "run" THEN MaxRunFiles ELSE MaxFiles

FilesOf(e, k) ==
  IF e = "run" THEN FileSpace(k, RunPool(k), MaxRunRows)
  ELSE FileSpace(k, Pool(k), MaxRows)

\* state after AadhaarDataCleaner(...) and the call of the entry point
Init ==
  /\ entry \in EntryPoints
  /\ pc = "clean"
  /\ kind = IF entry = "run" THEN Kinds[1] ELSE entry
  /\ step = "glob"
  /\ files = 0
  /\ idx = 0
  /\ all_data = <<>>
  /\ stats = InitStats
  /\ combined_df = EmptyFrame
  /\ last_file = <<>>
  /\ out_files = NoFn
  /\ cleaning_report = [timestamp |-> "now", datasets |-> NoFn, summary |-> NoFn]
  /\ report_out = <<>>
  /\ progress = [k \in KindSet |->
                    [status |-> "pending", files |-> 0, normalized |-> 0,
                     original_rows |-> <<>>]]
  /\ error = NoError
  /\ listing = <<>>
  /\ data_cache = NoFn
  /\ loaded = FALSE
  /\ api_pc = "off"
  /\ response = <<>>

\* a cleaner that writes what it has when it fails
partial_file_on_failure(out, k, partial) ==
  [kk \in DOMAIN out \cup {k} |->
     IF kk = k THEN Frame(Layout(k), Flatten([i \in 1..Len(partial) |-> partial[i].rows]))
     ELSE out[kk]]

\* what an exception leaving clean_*_data of kind k leaves in the output
\* directory: to_csv is not reached, nothing is written
files_after_failure(out, k, partial) == out

\* an exception leaves the cleaner and, not being caught by run() either,
\* ends the run
Raise(e) ==
  /\ pc' = "raised"
  /\ error' = [type |-> e, kind |-> kind, file |-> idx + 1]
  /\ progress' = [progress EXCEPT ![kind].status = "failed"]
  /\ out_files' = files_after_failure(out_files, kind, all_data)
  /\ step' = "glob"
  /\ files' = 0
  /\ idx' = 0
  /\ all_data' = <<>>
  /\ stats' = InitStats
  /\ combined_df' = EmptyFrame
  /\ UNCHANGED <<entry, kind, last_file, cleaning_report, report_out>>
  /\ UNCHANGED <<listing, api_vars>>

(***************************************************************************)
(* clean_enrolment_data, clean_demographic_data, clean_biometric_data      *)
(***************************************************************************)
\* sorted(dir.glob('*.csv')): the number of files of the directory; listing
\* is <<>> while the files are not fixed, else it holds their sequence
FileCounts ==
  IF listing = <<>> THEN 0..MaxFilesOf(entry) ELSE {Len(listing[1])}

\* the file the next pass of the loop reads
NextFiles ==
  IF listing = <<>> THEN FilesOf(entry, kind) ELSE {listing[1][idx + 1]}

\* a loop that hands over to the merge after its first file
stops_after_first_file(i, n) == i = n \/ i = 1

\* for file in files: the loop ends when every file has been taken
loop_exhausted(i, n) == i = n

\* the directory listing and the fresh tallies
Glob ==
  /\ pc = "clean"
  /\ step = "glob"
  /\ \E n \in FileCounts :
       /\ files' = n
       /\ progress' = [progress EXCEPT ![kind] =
                         [status |-> "running", files |-> n, normalized |-> 0,
                          original_rows |-> <<>>]]
  /\ idx' = 0
  /\ all_data' = <<>>
  /\ stats' = InitStats
  /\ step' = "loop"
  /\ UNCHANGED <<entry, pc, kind, combined_df, last_file, out_files,
                 cleaning_report, report_out, error>>
  /\ UNCHANGED <<listing, api_vars>>

\* one pass of the loop over the files
NormalizeFile ==
  /\ pc = "clean"
  /\ step = "loop"
  /\ idx < files
  /\ \E f \in NextFiles :
       \E r \in {clean_file(kind, f)} :
          /\ r.error = "none"
          /\ stats' = [stats EXCEPT
               !.total_rows = @ + r.original_count,
               !.invalid_dates = @ + r.added.invalid_dates,
               !.invalid_states = @ + r.added.invalid_states,
               !.invalid_pincodes = @ + r.added.invalid_pincodes,
               !.negative_values = @ + r.added.negative_values,
               !.missing_values = @ + r.added.missing_values]
          /\ all_data' = Append(all_data, Frame(r.columns, r.rows))
          /\ last_file' = <<[kind |-> kind, file |-> f,
                             original_count |-> r.original_count,
                             rows |-> r.rows, added |-> r.added]>>
          /\ progress' = [progress EXCEPT
               ![kind].normalized = @ + 1,
               ![kind].original_rows = Append(@, r.original_count)]
  /\ idx' = idx + 1
  /\ UNCHANGED <<entry, pc, kind, step, files, combined_df, out_files,
                 cleaning_report, report_out, error>>
  /\ UNCHANGED <<listing, api_vars>>

\* a pass of the loop that raises: unreadable file, absent column, column
\* without strings
NormalizeFileRaises ==
  /\ pc = "clean"
  /\ step = "loop"
  /\ idx < files
  /\ \E f \in NextFiles :
       \E r \in {clean_file(kind, f)} :
          /\ r.error # "none"
          /\ Raise(r.error)

\* after the loop: concatenate, drop duplicates, derive, sort
Merge ==
  /\ pc = "clean"
  /\ step = "loop"
  /\ loop_exhausted(idx, files)
  /\ \E m \in {merger(kind, all_data)} :
        /\ m.error = "none"
        /\ combined_df' = m.df
        /\ stats' = [stats EXCEPT !.duplicates_removed = m.duplicates,
                                  !.rows_cleaned = Len(m.df.rows)]
  /\ step' = "save"
  /\ progress' = [progress EXCEPT ![kind].status = "merged"]
  /\ UNCHANGED <<entry, pc, kind, files, idx, all_data, last_file, out_files,
                 cleaning_report, report_out, error>>
  /\ UNCHANGED <<listing, api_vars>>

\* the merge raises: nothing to concatenate, or an age column that no file
\* of the kind has
MergeRaises ==
  /\ pc = "clean"
  /\ step = "loop"
  /\ loop_exhausted(idx, files)
  /\ \E m \in {merger(kind, all_data)} :
        /\ m.error # "none"
        /\ Raise(m.error)

NextKind(k) ==
  LET i == CHOOSE j \in 1..Len(Kinds) : Kinds[j] = k
  IN IF i < Len(Kinds) THEN Kinds[i + 1] ELSE k

\* a cleaner that assigns a new datasets mapping holding its entry only
replace_datasets(datasets, k, s) == [kk \in {k} |-> s]

\* self.cleaning_report['datasets'][k] = stats
set_dataset(datasets, k, s) ==
  [kk \in DOMAIN datasets \cup {k} |-> IF kk = k THEN s ELSE datasets[kk]]

\* to_csv, the kind's entry of the report, return
Save ==
  /\ pc = "clean"
  /\ step = "save"
  /\ out_files' = [k \in DOMAIN out_files \cup {kind} |->
                     IF k = kind THEN combined_df ELSE out_files[k]]
  /\ cleaning_report' = [cleaning_report EXCEPT !.datasets =
                           set_dataset(@, kind, stats)]
  /\ progress' = [progress EXCEPT ![kind].status = "done"]
  /\ IF entry = "run"
       THEN IF kind = Kinds[Len(Kinds)]
              THEN pc' = "generate_summary_stats" /\ kind' = kind
              ELSE pc' = "clean" /\ kind' = NextKind(kind)
       ELSE pc' = "completed" /\ kind' = kind
  /\ step' = "glob"
  /\ files' = 0
  /\ idx' = 0
  /\ all_data' = <<>>
  /\ stats' = InitStats
  /\ combined_df' = EmptyFrame
  /\ last_file' = <<>>
  /\ UNCHANGED <<entry, report_out, error>>
  /\ UNCHANGED <<listing, api_vars>>

(***************************************************************************)
(* generate_summary_stats, save_report                                     *)
(***************************************************************************)
GenerateSummaryStats ==
  /\ pc = "generate_summary_stats"
  /\ ~summary_raises(out_files)
  /\ cleaning_report' = [cleaning_report EXCEPT !.summary = summary_stats(out_files)]
  /\ pc' = "save_report"
  /\ UNCHANGED <<entry, kind, step, files, idx, all_data, stats, combined_df,
                 last_file, out_files, report_out, progress, error>>
  /\ UNCHANGED <<listing, api_vars>>

GenerateSummaryStatsRaises ==
  /\ pc = "generate_summary_stats"
  /\ summary_raises(out_files)
  /\ pc' = "raised"
  /\ error' = [type |-> "ValueError", kind |-> "summary", file |-> 0]
  /\ UNCHANGED <<entry, kind, step, files, idx, all_data, stats, combined_df,
                 last_file, out_files, cleaning_report, report_out, progress>>
  /\ UNCHANGED <<listing, api_vars>>

\* the "Data quality" line of a kind: rows_cleaned / total_rows * 100 written
\* with two decimals, here in hundredths of a percent, rounded to nearest
quality(s) ==
  (2 * 10000 * s.rows_cleaned + s.total_rows) \div (2 * s.total_rows)

\* the JSON report, then the text report with the quality line of every
\* kind; the division raises when a kind read no row
SaveReport ==
  /\ pc = "save_report"
  /\ LET datasets == cleaning_report.datasets
     IN IF \E k \in DOMAIN datasets : datasets[k].total_rows = 0
          THEN /\ report_out' = <<[json |-> cleaning_report, quality |-> NoFn]>>
               /\ pc' = "raised"
               /\ error' = [type |-> "ZeroDivisionError", kind |-> "report",
                            file |-> 0]
          ELSE /\ report_out' =
                    <<[json |-> cleaning_report,
                       quality |-> [k \in DOMAIN datasets |-> quality(datasets[k])]]>>
               /\ pc' = "completed"
               /\ error' = error
  /\ UNCHANGED <<entry, kind, step, files, idx, all_data, stats, combined_df,
                 last_file, out_files, cleaning_report, progress>>
  /\ UNCHANGED <<listing, api_vars>>

Next ==
  \/ Glob
  \/ NormalizeFile
  \/ NormalizeFileRaises
  \/ Merge
  \/ MergeRaises
  \/ Save
  \/ GenerateSummaryStats
  \/ GenerateSummaryStatsRaises
  \/ SaveReport

Spec == Init /\ [][Next]_vars

(***************************************************************************)
(* A cleaner as a function of the files of its directory                   *)
(***************************************************************************)
\* the loop body's bookkeeping for a file that gave r: an exception leaves
\* the loop, else the tallies grow and the frame is appended
take_file(acc, r) ==
  IF r.error # "none"
    THEN [acc EXCEPT !.error = r.error]
    ELSE [error |-> "none",
          all_data |-> Append(acc.all_data, Frame(r.columns, r.rows)),
          stats |-> [acc.stats EXCEPT
                       !.total_rows = @ + r.original_count,
                       !.invalid_dates = @ + r.added.invalid_dates,
                       !.invalid_states = @ + r.added.invalid_states,
                       !.invalid_pincodes = @ + r.added.invalid_pincodes,
                       !.negative_values = @ + r.added.negative_values,
                       !.missing_values = @ + r.added.missing_values]]

\* for file in files, from the i-th file on
RECURSIVE loop_from(_, _, _, _)
loop_from(k, fs, i, acc) ==
  IF acc.error # "none" \/ i > Len(fs) THEN acc
  ELSE CHOOSE out \in
         {loop_from(k, fs, i + 1, a) :
            a \in {take_file(acc, r) : r \in {clean_file(k, fs[i])}}} : TRUE

\* the code after the loop: the merge and the last two tallies
after_loop(acc, m) ==
  IF acc.error # "none"
    THEN [error |-> acc.error, df |-> EmptyFrame, stats |-> InitStats]
  ELSE IF m.error # "none"
    THEN [error |-> m.error, df |-> EmptyFrame, stats |-> InitStats]
  ELSE [error |-> "none", df |-> m.df,
        stats |-> [acc.stats EXCEPT !.duplicates_removed = m.duplicates,
                                    !.rows_cleaned = Len(m.df.rows)]]

\* clean_<kind>_data on a directory whose sorted listing is fs: the
\* exception raised, or the canonical table and the kind's tallies
clean_kind(k, fs) ==
  CHOOSE out \in
    {after_loop(acc, m) :
       <<acc, m>> \in
         {<<a, merger(k, a.all_data)>> :
            a \in {loop_from(k, fs, 1,
                     [error |-> "none", all_data |-> <<>>, stats |-> InitStats])}}}
    : TRUE

\* the listings a kind's directory may have
Listings(k) ==
  SeqUpTo(FileSpace(k, Pool(k), MaxListedRows), MaxListedFiles)

\* state at the call of one cleaner on a directory whose files are fixed
ListedInit ==
  /\ entry \in KindSet
  /\ pc = "clean"
  /\ kind = entry
  /\ step = "glob"
  /\ files = 0
  /\ idx = 0
  /\ all_data = <<>>
  /\ stats = InitStats
  /\ combined_df = EmptyFrame
  /\ last_file = <<>>
  /\ out_files = NoFn
  /\ cleaning_report = [timestamp |-> "now", datasets |-> NoFn, summary |-> NoFn]
  /\ report_out = <<>>
  /\ progress = [k \in KindSet |->
                   [status |-> "pending", files |-> 0, normalized |-> 0,
                    original_rows |-> <<>>]]
  /\ error = NoError
  /\ listing \in {<<fs>> : fs \in Listings(entry)}
  /\ data_cache = NoFn
  /\ loaded = FALSE
  /\ api_pc = "off"
  /\ response = <<>>

ListedNext ==
  \/ Glob
  \/ NormalizeFile
  \/ NormalizeFileRaises
  \/ Merge
  \/ MergeRaises
  \/ Save

ListedSpec == ListedInit /\ [][ListedNext]_vars

(***************************************************************************)
(* api_server.py: the cache of canonical tables and load_data              *)
(***************************************************************************)
\* the key of data_cache that holds the canonical table of kind k
cache_key(k) == IF k = "enrolment" THEN "enrollment" ELSE k

CacheKeys == {cache_key(k) : k \in KindSet}

\* to_csv writes a timestamp as year-month-day text
to_csv_date(t) == IF t = NaT THEN NaN ELSE <<t[1], t[2], t[3]>>

\* read_csv(parse_dates=['date']) of one date cell: year-month-day text
\* becomes a timestamp, an empty cell NaT
parse_dates(c) ==
  IF isna(c) THEN NaT
  ELSE IF c[2] \in 1..12 /\ c[3] \in 1..DaysInMonth(c[2], c[1])
    THEN <<c[1], c[2], c[3]>>
    ELSE c

\* a canonical file read back: the date is parsed again and the postal
\* code, written as digits, comes back as an integer
read_clean_csv(table) ==
  Frame(table.columns,
        [i \in 1..Len(table.rows) |->
           [table.rows[i] EXCEPT
              !["date"] = parse_dates(to_csv_date(@)),
              !["pincode"] = IF isna(@) THEN NaN ELSE DropLeadingZeros(@)]])

\* data_cache[key] = table
cache_put(cache, key, table) ==
  [kk \in DOMAIN cache \cup {key} |-> IF kk = key THEN table ELSE cache[kk]]

\* load_data from its i-th read_csv on: the first file that cannot be read
\* ends the loading, with what was put in the cache before
RECURSIVE load_from(_, _, _)
load_from(dir, cache, i) ==
  IF i > Len(Kinds) THEN [cache |-> cache, ok |-> TRUE]
  ELSE IF Kinds[i] \notin DOMAIN dir THEN [cache |-> cache, ok |-> FALSE]
  ELSE CHOOSE out \in
         {load_from(dir, c, i + 1) :
            c \in {cache_put(cache, cache_key(Kinds[i]),
                             read_clean_csv(dir[Kinds[i]]))}} : TRUE

load_data(dir, cache) == load_from(dir, cache, 1)

(***************************************************************************)
(* api_server.py: the endpoints                                            *)
(***************************************************************************)
\* what the body of an endpoint's try block comes to: a returned body or an
\* exception raised
Ok(body) == [raises |-> "none", body |-> body]

Raises(e) == [raises |-> e, body |-> NoFn]

DataNotLoaded == "HTTPException(503, Data not loaded)"

\* try: ... except Exception as e: raise HTTPException(500, str(e)).
\* HTTPException is an Exception, so the handler catches the one the try
\* block raises as well
http_response(endpoint, r) ==
  IF r.raises = "none"
    THEN [endpoint |-> endpoint, status |-> 200, detail |-> "", body |-> r.body]
    ELSE [endpoint |-> endpoint, status |-> 500, detail |-> r.raises, body |-> NoFn]

\* Series.sum() of a column: NaN is skipped
col_sum(rows, c) ==
  SumSeq([i \in 1..Len(rows) |-> IF isna(rows[i][c]) THEN 0 ELSE rows[i][c][1]])

\* the outcomes of the try block of get_metrics
get_metrics(cache) ==
  IF \E key \in CacheKeys : key \notin DOMAIN cache THEN {Raises(DataNotLoaded)}
  ELSE {Ok([total_enrollments |->
              col_sum(cache["enrollment"].rows, "total_enrollments"),
            total_demographic_updates |->
              col_sum(cache["demographic"].rows, "total_demographic_updates"),
            total_biometric_updates |->
              col_sum(cache["biometric"].rows, "total_biometric_updates"),
            records_count |-> [key \in CacheKeys |-> Len(cache[key].rows)]])}

DaysBeforeMonth(m, y) == SumSeq([i \in 1..(m - 1) |-> DaysInMonth(i, y)])

\* the number of the day of a timestamp, counted from a fixed day
DayNumber(t) ==
  365 * (t[1] - 1) + ((t[1] - 1) \div 4) - ((t[1] - 1) \div 100)
    + ((t[1] - 1) \div 400) + DaysBeforeMonth(t[2], t[1]) + t[3]

RECURSIVE sorted_dates(_)
sorted_dates(S) ==
  IF S = {} THEN <<>>
  ELSE LET first == CHOOSE d \in S : \A e \in S : DateLE(d, e)
       IN <<first>> \o sorted_dates(S \ {first})

\* df[df['date'] >= min_date].groupby('date')[c].sum(): the dates from
\* min_day on, ascending, and the sum of c over the rows of each
daily(rows, c, min_day) ==
  LET index == sorted_dates({rows[i]["date"] : i \in
                 {j \in 1..Len(rows) : DayNumber(rows[j]["date"]) >= min_day}})
  IN [index |-> index,
      values |-> [n \in 1..Len(index) |->
                    SumSeq([i \in 1..Len(rows) |->
                      IF rows[i]["date"] = index[n] /\ ~isna(rows[i][c])
                        THEN rows[i][c][1] ELSE 0])]]

\* index.strftime('%Y-%m-%d').tolist(): the dates as year-month-day text
strftime_index(index) ==
  [n \in 1..Len(index) |-> <<index[n][1], index[n][2], index[n][3]>>]

\* the outcomes of the try block of get_trends.  On an empty enrollment
\* table the date column is not known to be of dates: the index of the
\* daily sums then has strftime or not
get_trends(cache, days) ==
  IF "enrollment" \notin DOMAIN cache THEN {Raises(DataNotLoaded)}
  ELSE IF "demographic" \notin DOMAIN cache \/ "biometric" \notin DOMAIN cache
    THEN {Raises("TypeError")}
  ELSE IF cache["enrollment"].rows = <<>>
    THEN {Raises("AttributeError"),
          Ok([dates |-> <<>>, enrollment |-> <<>>, demographic |-> <<>>,
              biometric |-> <<>>, period |-> days])}
  ELSE
  LET enrol == cache["enrollment"].rows
      min_day == DayNumber(enrol[MaxDate(enrol)]["date"]) - days
  IN {Ok([dates |-> strftime_index(daily(enrol, "total_enrollments", min_day).index),
          enrollment |-> daily(enrol, "total_enrollments", min_day).values,
          demographic |-> daily(cache["demographic"].rows,
                                "total_demographic_updates", min_day).values,
          biometric |-> daily(cache["biometric"].rows,
                              "total_biometric_updates", min_day).values,
          period |-> days])}

\* the distinct values of a column, NaN left out
nunique(rows, c) ==
  Cardinality({rows[i][c] : i \in 1..Len(rows)} \ {NaN})

\* the rows whose column c holds v
where(rows, c, v) == SelectSeq(rows, LAMBDA r : r[c] = v)

\* enrol_df.groupby('state').agg(sum of the totals, nunique of the
\* sub-regions and of the postal codes): one entry per region
state_groups(rows) ==
  {[state |-> st,
    enrollments |-> col_sum(where(rows, "state", st), "total_enrollments"),
    districts |-> nunique(where(rows, "state", st), "district"),
    pincodes |-> nunique(where(rows, "state", st), "pincode")] :
     st \in {rows[i]["state"] : i \in 1..Len(rows)}}

Min(a, b) == IF a < b THEN a ELSE b

\* sort_values(ascending=False).head(n) of the groups: the orders in which
\* the n largest can come, groups of equal total in any order
largest_first(groups, n) ==
  {q \in [1..Min(n, Cardinality(groups)) -> groups] :
     /\ \A i, j \in DOMAIN q : i < j =>
          q[i] # q[j] /\ q[i].enrollments >= q[j].enrollments
     /\ \A g \in groups \ Range(q) :
          \A i \in DOMAIN q : g.enrollments <= q[i].enrollments}

\* the outcomes of the try block of get_states_data
get_states_data(cache, top_n) ==
  IF "enrollment" \notin DOMAIN cache THEN {Raises(DataNotLoaded)}
  ELSE {Ok([top_states |-> q,
            total_states |-> nunique(cache["enrollment"].rows, "state")]) :
          q \in largest_first(state_groups(cache["enrollment"].rows), top_n)}

\* the outcomes of the try block of get_all_states_data
get_all_states_data(cache) ==
  IF "enrollment" \notin DOMAIN cache THEN {Raises(DataNotLoaded)}
  ELSE LET groups == state_groups(cache["enrollment"].rows)
       IN {Ok([states |-> q,
               total_states |-> Len(q),
               total_enrollments |->
                 col_sum(cache["enrollment"].rows, "total_enrollments")]) :
             q \in largest_first(groups, Cardinality(groups))}

\* round(count / total * 100, 1), in tenths of a percent
percentage(count, total) == (2 * 1000 * count + total) \div (2 * total)

\* the outcomes of the try block of get_demographics
get_demographics(cache) ==
  IF "enrollment" \notin DOMAIN cache THEN {Raises(DataNotLoaded)}
  ELSE
  LET rows == cache["enrollment"].rows
      counts == [i \in 1..3 |-> col_sum(rows, age_cols("enrolment")[i])]
      total == SumSeq(counts)
  IN IF total = 0 THEN {Raises("ZeroDivisionError")}
     ELSE {Ok([age_distribution |->
                 [i \in 1..3 |-> [count |-> counts[i],
                                  percentage |-> percentage(counts[i], total)]],
               total |-> total])}

\* groupby(c)['total_enrollments'].sum(): the sum for every value of c
group_sums(rows, c) ==
  [v \in {rows[i][c] : i \in 1..Len(rows)} |->
     col_sum(where(rows, c, v), "total_enrollments")]

\* idxmax / idxmin of the sums: a key whose sum is the largest / smallest
idxmax(sums) == {v \in DOMAIN sums : \A w \in DOMAIN sums : sums[w] <= sums[v]}

idxmin(sums) == {v \in DOMAIN sums : \A w \in DOMAIN sums : sums[w] >= sums[v]}

\* ratio > 1.5 for ratio = bio_total / demo_total as numpy divides: inf for
\* a positive total over zero, nan for zero over zero
ratio_exceeds(bio_total, demo_total) ==
  IF demo_total = 0 THEN bio_total > 0 ELSE 2 * bio_total > 3 * demo_total

\* the outcomes of the try block of get_anomalies.  The sums of two empty
\* tables are plain zeros, whose division raises, or numpy zeros
get_anomalies(cache) ==
  IF "enrollment" \notin DOMAIN cache THEN {Raises(DataNotLoaded)}
  ELSE IF cache["enrollment"].rows = <<>> THEN {Raises("ValueError")}
  ELSE IF "biometric" \notin DOMAIN cache \/ "demographic" \notin DOMAIN cache
    THEN {Raises("TypeError")}
  ELSE
  LET rows == cache["enrollment"].rows
      bio_total == col_sum(cache["biometric"].rows, "total_biometric_updates")
      demo_total == col_sum(cache["demographic"].rows, "total_demographic_updates")
      warns == ratio_exceeds(bio_total, demo_total)
      both_empty == cache["biometric"].rows = <<>> /\ cache["demographic"].rows = <<>>
  IN {Ok([max_day |-> d, min_day |-> e, peak_month |-> m,
          operational |-> warns, count |-> IF warns THEN 3 ELSE 2]) :
        d \in idxmax(group_sums(rows, "day_of_week")),
        e \in idxmin(group_sums(rows, "day_of_week")),
        m \in idxmax(group_sums(rows, "month"))}
       \cup (IF both_empty THEN {Raises("ZeroDivisionError")} ELSE {})

Weekend == {<<"Saturday">>, <<"Sunday">>}

\* weekend_avg > weekday_avg * 1.1, each the mean over the dates of the
\* daily sums; a mean over no date is nan and compares False
weekend_surge(rows) ==
  LET we == SelectSeq(rows, LAMBDA r : r["day_of_week"] \in Weekend)
      wd == SelectSeq(rows, LAMBDA r : r["day_of_week"] \notin Weekend)
      we_dates == Cardinality({we[i]["date"] : i \in 1..Len(we)})
      wd_dates == Cardinality({wd[i]["date"] : i \in 1..Len(wd)})
  IN /\ we_dates > 0
     /\ wd_dates > 0
     /\ 10 * col_sum(we, "total_enrollments") * wd_dates
          > 11 * col_sum(wd, "total_enrollments") * we_dates

\* the outcomes of the try block of get_insights; the tables of the other
\* two kinds are fetched and not used
get_insights(cache) ==
  IF "enrollment" \notin DOMAIN cache THEN {Raises(DataNotLoaded)}
  ELSE IF cache["enrollment"].rows = <<>>
    THEN {Raises("ZeroDivisionError"), Raises("ValueError")}
  ELSE
  LET rows == cache["enrollment"].rows
      total == col_sum(rows, "total_enrollments")
      young == total > 0 /\ 100 * col_sum(rows, "age_0_5") > 60 * total
      surge == weekend_surge(rows)
  IN {Ok([young_population |-> young, weekend_surge |-> surge,
          top_state |-> st,
          top_state_count |-> group_sums(rows, "state")[st]]) :
        st \in idxmax(group_sums(rows, "state"))}

(***************************************************************************)
(* The server process: load_data at import, then requests                  *)
(***************************************************************************)
\* the canonical tables a cleaner writes for kind k from one source file
CanonicalTables(k) ==
  {m.df : m \in
     {mm \in {merger(k, <<Frame(r.columns, r.rows)>>) :
                r \in {rr \in {clean_file(k, f) :
                                 f \in FileSpace(k, RunPool(k), MaxRunRows)} :
                         rr.error = "none"}} :
        mm.error = "none"}}

\* the contents the directory of canonical files can have when the server
\* starts: for every kind, no file or a table its cleaner wrote
CleanDirs ==
  UNION {{dir \in [present -> UNION {CanonicalTables(k) : k \in KindSet}] :
            \A k \in present : dir[k] \in CanonicalTables(k)} :
         present \in SUBSET KindSet}

\* the days and top_n parameters of a request, the defaults among them
DaysChoices == {30, 60}

TopNChoices == {1, 10}

\* state at the import of api_server: the cleaner is not running, the cache
\* is the empty dict
ApiInit ==
  /\ entry = "api_server"
  /\ pc = "off"
  /\ kind = Kinds[1]
  /\ step = "glob"
  /\ files = 0
  /\ idx = 0
  /\ all_data = <<>>
  /\ stats = InitStats
  /\ combined_df = EmptyFrame
  /\ last_file = <<>>
  /\ out_files \in CleanDirs
  /\ cleaning_report = [timestamp |-> "now", datasets |-> NoFn, summary |-> NoFn]
  /\ report_out = <<>>
  /\ progress = [k \in KindSet |->
                   [status |-> "pending", files |-> 0, normalized |-> 0,
                    original_rows |-> <<>>]]
  /\ error = NoError
  /\ listing = <<>>
  /\ data_cache = NoFn
  /\ loaded = FALSE
  /\ api_pc = "import"
  /\ response = <<>>

\* load_data(), called when the module is imported
LoadData ==
  /\ api_pc = "import"
  /\ \E l \in {load_data(out_files, data_cache)} :
       /\ data_cache' = l.cache
       /\ loaded' = l.ok
  /\ api_pc' = "serving"
  /\ UNCHANGED response
  /\ UNCHANGED cleaner_vars

\* an endpoint that adds the column it computes to the cached table
cache_with_added_column(cache, endpoint) ==
  IF endpoint = "/demographics" /\ "enrollment" \in DOMAIN cache
    THEN [cache EXCEPT !["enrollment"] =
            Frame(@.columns \cup {"total"},
                  [i \in 1..Len(@.rows) |->
                     [c \in DOMAIN @.rows[i] \cup {"total"} |->
                        IF c = "total" THEN @.rows[i]["total_enrollments"]
                        ELSE @.rows[i][c]]])]
    ELSE cache

\* what a request leaves in data_cache: the endpoints only read the cached
\* tables (get, column sums, groupby, boolean indexing into new frames)
cache_after_request(cache, endpoint) == cache

\* a request: the outcome of the endpoint's try block, answered through its
\* handler
Request(endpoint, outcomes) ==
  /\ api_pc = "serving"
  /\ \E r \in outcomes : response' = <<http_response(endpoint, r)>>
  /\ data_cache' = cache_after_request(data_cache, endpoint)
  /\ UNCHANGED <<loaded, api_pc>>
  /\ UNCHANGED cleaner_vars

GetMetrics == Request("/metrics", get_metrics(data_cache))

GetTrends ==
  \E days \in DaysChoices : Request("/trends", get_trends(data_cache, days))

GetStatesData ==
  \E top_n \in TopNChoices :
    Request("/states", get_states_data(data_cache, top_n))

GetAllStatesData == Request("/states/all", get_all_states_data(data_cache))

GetDemographics == Request("/demographics", get_demographics(data_cache))

GetAnomalies == Request("/anomalies", get_anomalies(data_cache))

GetInsights == Request("/insights", get_insights(data_cache))

ApiNext ==
  \/ LoadData
  \/ GetMetrics
  \/ GetTrends
  \/ GetStatesData
  \/ GetAllStatesData
  \/ GetDemographics
  \/ GetAnomalies
  \/ GetInsights

ApiSpec == ApiInit /\ [][ApiNext]_vars

(***************************************************************************)
(* The five validation predicates, stated on a raw row of kind k           *)
(***************************************************************************)
DateParses(r) == to_datetime(r["date"]) # NaT

RegionValid(r) == str_strip(r["state"]) \in valid_states

PostalValid(r) == match_pincode(str_strip(r["pincode"]))

CountsNonNegative(k, r) ==
  \A c \in AgeColSet(k) : isna(r[c]) \/ r[c][1] >= 0

NothingMissing(k, r) == \A c \in Layout(k) : ~isna(r[c])

PassesAll(k, r) ==
  /\ DateParses(r)
  /\ RegionValid(r)
  /\ PostalValid(r)
  /\ CountsNonNegative(k, r)
  /\ NothingMissing(k, r)

\* the tally of the earliest stage a raw row fails
FirstFailure(k, r) ==
  IF ~DateParses(r) THEN "invalid_dates"
  ELSE IF ~RegionValid(r) THEN "invalid_states"
  ELSE IF ~PostalValid(r) THEN "invalid_pincodes"
  ELSE IF ~CountsNonNegative(k, r) THEN "negative_values"
  ELSE IF ~NothingMissing(k, r) THEN "missing_values"
  ELSE "none"

\* a raw row in canonical form: date parsed, region and postal code trimmed,
\* sub-region trimmed and title-cased
Normalized(r) ==
  [r EXCEPT !["date"] = to_datetime(@),
            !["state"] = str_strip(@),
            !["pincode"] = str_strip(@),
            !["district"] = str_title(str_strip(@))]

Stages == {"invalid_dates", "invalid_states", "invalid_pincodes",
           "negative_values", "missing_values"}

\* C1: the rows of a file that survive the six stages are exactly its rows
\* that pass all five validation predicates, in canonical form.
C1_SurvivesIffValid ==
  last_file # <<>> =>
    LET lf == last_file[1]
        valid == SelectSeq(lf.file.rows, LAMBDA r : PassesAll(lf.kind, r))
    IN lf.rows = [i \in 1..Len(valid) |-> Normalized(valid[i])]

\* C2: the amounts a file adds to the five stage tallies sum to the number of
\* rows read from it minus the number of its rows that survive.
C2_TalliesSumToRemoved ==
  last_file # <<>> =>
    LET lf == last_file[1]
    IN lf.added.invalid_dates + lf.added.invalid_states
         + lf.added.invalid_pincodes + lf.added.negative_values
         + lf.added.missing_values
       = lf.original_count - Len(lf.rows)

\* C3: every rejected row adds exactly one to exactly one tally, that of the
\* earliest stage it fails: each tally grows by the number of the file's rows
\* whose earliest failure is that stage.
C3_CountedOnceAtEarliestStage ==
  last_file # <<>> =>
    LET lf == last_file[1]
    IN \A s \in Stages :
         lf.added[s] =
           Cardinality({i \in 1..Len(lf.file.rows) :
                          FirstFailure(lf.kind, lf.file.rows[i]) = s})

IsCalendarDate(t) ==
  /\ Len(t) = 3
  /\ t[2] \in 1..12
  /\ t[3] \in 1..DaysInMonth(t[2], t[1])

\* C4: every row of a canonical table has a valid date, a region of
\* valid_states, a six-digit postal code, non-negative counts and no empty
\* cell in any column, raw or derived.
C4_CanonicalRowsValid ==
  \A k \in DOMAIN out_files :
    \A i \in 1..Len(out_files[k].rows) :
      LET r == out_files[k].rows[i]
      IN /\ IsCalendarDate(r["date"])
         /\ r["state"] \in valid_states
         /\ match_pincode(r["pincode"])
         /\ \A c \in AgeColSet(k) : ~isna(r[c]) /\ r[c][1] >= 0
         /\ \A c \in Layout(k) \cup DerivedCols(k) : ~isna(r[c])

NoTwoEqual(rows) ==
  \A i, j \in 1..Len(rows) : i # j => rows[i] # rows[j]

RawColumns(k, r) == [c \in Layout(k) |-> r[c]]

\* C5: no two rows of a canonical table are equal, and every observation
\* that survived normalization, however many times and in however many
\* files, is exactly one row of the merged table.
C5_OneRowPerObservation ==
  /\ \A k \in DOMAIN out_files : NoTwoEqual(out_files[k].rows)
  /\ step = "save" =>
       /\ NoTwoEqual(combined_df.rows)
       /\ \A f \in 1..Len(all_data) :
            \A i \in 1..Len(all_data[f].rows) :
              Cardinality({j \in 1..Len(combined_df.rows) :
                 \A c \in all_data[f].columns :
                   combined_df.rows[j][c] = all_data[f].rows[i][c]}) >= 1
       /\ \A f \in 1..Len(all_data) :
            all_data[f].columns = Layout(kind) =>
              \A i \in 1..Len(all_data[f].rows) :
                Cardinality({j \in 1..Len(combined_df.rows) :
                   RawColumns(kind, combined_df.rows[j]) = all_data[f].rows[i]}) = 1

\* the same observation survived in two files and the merge has run
C5_Witness ==
  /\ step = "save"
  /\ Len(all_data) = 2
  /\ \E i \in 1..Len(all_data[1].rows) :
       \E j \in 1..Len(all_data[2].rows) :
         all_data[1].rows[i] = all_data[2].rows[j]
  /\ stats.duplicates_removed > 0

\* C6: in every row of a canonical table the derived total is the sum of the
\* row's kind-specific counts.
C6_TotalIsSumOfCounts ==
  \A k \in DOMAIN out_files :
    \A i \in 1..Len(out_files[k].rows) :
      LET r == out_files[k].rows[i]
      IN /\ \A c \in AgeColSet(k) : ~isna(r[c])
         /\ r[total_col(k)] =
              <<SumSeq([n \in 1..Len(age_cols(k)) |-> r[age_cols(k)[n]][1]])>>

SortedByDate(rows) ==
  \A i \in 1..(Len(rows) - 1) : DateLE(rows[i]["date"], rows[i + 1]["date"])

\* C7: every canonical table is sorted by date, ascending.
C7_SortedByDate ==
  /\ \A k \in DOMAIN out_files : SortedByDate(out_files[k].rows)
  /\ step = "save" => SortedByDate(combined_df.rows)

\* the merge has sorted rows that arrived latest date first
C7_Witness ==
  /\ step = "save"
  /\ LET arrived == concat(kind, all_data).rows
     IN \E i, j \in 1..Len(arrived) :
          i < j /\ DateLT(arrived[j]["date"], arrived[i]["date"])
  /\ Len(combined_df.rows) >= 2

\* C8: merging the merged table again removes no duplicate and gives the
\* same set of canonical rows.
C8_MergeIdempotent ==
  step = "save" =>
    LET raw == [i \in 1..Len(combined_df.rows) |->
                  RawColumns(kind, combined_df.rows[i])]
        again == merger(kind, <<Frame(combined_df.columns \ DerivedCols(kind), raw)>>)
    IN /\ again.error = "none"
       /\ again.duplicates = 0
       /\ duplicates_count(combined_df.rows) = 0
       /\ Range(again.df.rows) = Range(combined_df.rows)
       /\ Range(combined_df.rows) =
            Range(add_derived(kind, concat(kind, all_data).rows))

\* the first merge removed duplicates
C8_Witness ==
  /\ step = "save"
  /\ stats.duplicates_removed > 0
  /\ Len(combined_df.rows) >= 1

\* C9: when a kind fails inside run(), the other kinds are still cleaned and
\* their canonical tables written.
C9_OtherKindsStillProcessed ==
  (entry = "run" /\ pc = "raised" /\ error.kind \in KindSet) =>
    \A k \in KindSet \ {error.kind} : k \in DOMAIN out_files

\* C10: a kind that failed has no canonical file, and a canonical file exists
\* only for a kind whose files were all normalized and whose merge completed.
C10_NoFileForFailedKind ==
  \A k \in KindSet :
    /\ progress[k].status = "failed" => k \notin DOMAIN out_files
    /\ k \in DOMAIN out_files =>
         /\ progress[k].status = "done"
         /\ progress[k].normalized = progress[k].files

\* a kind failed after one of its files had been normalized
C10_Witness ==
  \E k \in KindSet :
    /\ progress[k].status = "failed"
    /\ progress[k].normalized >= 1
    /\ progress[k].normalized < progress[k].files
    /\ k \notin DOMAIN out_files

\* C11: a file that lacks one of its kind's count columns is never normalized
\* (the pass of the loop fails and the kind is aborted), so no frame of
\* all_data and no row of a canonical table comes from such a file.
C11_MissingCountColumnAborts ==
  /\ last_file # <<>> =>
       AgeColSet(last_file[1].kind) \subseteq last_file[1].file.columns
  /\ \A f \in 1..Len(all_data) : AgeColSet(kind) \subseteq all_data[f].columns
  /\ \A k \in DOMAIN out_files :
       \A i \in 1..Len(out_files[k].rows) :
         \A c \in AgeColSet(k) : ~isna(out_files[k].rows[i][c])

\* C12: a run in which the canonical table of a kind has no row completes:
\* the summary and the report are written, with a quality ratio of 0.0 for
\* that kind.
C12_EmptyKindTolerated ==
  (/\ entry = "run"
   /\ DOMAIN out_files = KindSet
   /\ \E k \in KindSet : out_files[k].rows = <<>>) =>
     /\ pc # "raised"
     /\ pc = "completed" =>
          /\ report_out # <<>>
          /\ \A k \in KindSet :
               out_files[k].rows = <<>> => report_out[1].quality[k] = 0

\* the count columns of a frame's row that hold a negative value
NegativeCols(k, columns, r) ==
  {c \in AgeColSet(k) \cap columns : is_negative(r, c)}

\* C14 as stated: every row that reaches stage 5 adds one to negative_values
\* for each of its negative count columns (2 for a row negative in two
\* columns), and is dropped.
C14_CountedPerOffendingColumn ==
  last_file # <<>> =>
    LET lf == last_file[1]
        s4 == stages_1_to_4(lf.file)
    IN /\ lf.added.negative_values =
            SumSeq([i \in 1..Len(s4.rows) |->
                      Cardinality(NegativeCols(lf.kind, s4.columns, s4.rows[i]))])
       /\ \A i \in 1..Len(lf.rows) :
            NegativeCols(lf.kind, s4.columns, lf.rows[i]) = {}

\* C14, amended: every row that reaches stage 5 with a negative count column,
\* in one column or in several, adds exactly one to negative_values and is
\* dropped.
C14_CountedOncePerRow ==
  last_file # <<>> =>
    LET lf == last_file[1]
        s4 == stages_1_to_4(lf.file)
    IN /\ lf.added.negative_values =
            Cardinality({i \in 1..Len(s4.rows) :
                           NegativeCols(lf.kind, s4.columns, s4.rows[i]) # {}})
       /\ \A i \in 1..Len(lf.rows) :
            NegativeCols(lf.kind, s4.columns, lf.rows[i]) = {}

\* a file with a row negative in two count columns has been normalized
C14_Witness ==
  /\ last_file # <<>>
  /\ \E i \in 1..Len(last_file[1].file.rows) :
       Cardinality(NegativeCols(last_file[1].kind, last_file[1].file.columns,
                                last_file[1].file.rows[i])) = 2
  /\ last_file[1].added.negative_values >= 1

\* the rows of the kind's files that survived normalization
SurvivingRows == SumSeq([f \in 1..Len(all_data) |-> Len(all_data[f].rows)])

\* C15: the quality ratio derived from a kind's tallies is the number of rows
\* that survived normalization, summed over the kind's files, divided by the
\* number of rows read, and lies between 0 and 1.
C15_QualityIsSurvivingOverRead ==
  (step = "save" /\ stats.total_rows > 0) =>
    /\ quality(stats) =
         (2 * 10000 * SurvivingRows + stats.total_rows) \div (2 * stats.total_rows)
    /\ quality(stats) \in 0..10000

\* the rows of the kind's files that the six stages rejected: for every
\* file, the rows read minus the rows that survived
RejectedRows ==
  SumSeq([f \in 1..Len(all_data) |->
            progress[kind].original_rows[f] - Len(all_data[f].rows)])

\* C16: after a kind's merge, duplicates_removed is the number of surviving
\* rows of the files minus the number of rows of the canonical table,
\* total_rows = rows_cleaned + duplicates_removed + rejected rows, and
\* 0 <= rows_cleaned <= total_rows.
C16_TallyAccountsForEveryRow ==
  /\ step = "save" =>
       /\ stats.duplicates_removed = SurvivingRows - Len(combined_df.rows)
       /\ stats.total_rows =
            stats.rows_cleaned + stats.duplicates_removed + RejectedRows
       /\ stats.rows_cleaned = Len(combined_df.rows)
       /\ stats.rows_cleaned >= 0
       /\ stats.rows_cleaned <= stats.total_rows
  /\ \A k \in DOMAIN cleaning_report.datasets :
       /\ cleaning_report.datasets[k].rows_cleaned = Len(out_files[k].rows)
       /\ cleaning_report.datasets[k].rows_cleaned
            + cleaning_report.datasets[k].duplicates_removed
              <= cleaning_report.datasets[k].total_rows

\* a merge that removed duplicates, of files that had rows rejected
C16_Witness ==
  /\ step = "save"
  /\ stats.duplicates_removed > 0
  /\ RejectedRows > 0
  /\ stats.rows_cleaned > 0

\* the distinct regions of the canonical table of kind k
RegionsOf(k) == {out_files[k].rows[i]["state"] : i \in 1..Len(out_files[k].rows)}

\* C18: the unique-region count of the summary is the size of the union of
\* the distinct regions of the three canonical tables; it is at least the
\* size of the union over any two kinds and the count of any single kind.
C18_RegionUnionMonotonic ==
  cleaning_report.summary # NoFn =>
    LET n == cleaning_report.summary.unique_locations.states
    IN /\ n = Cardinality(UNION {RegionsOf(k) : k \in KindSet})
       /\ \A j, k \in KindSet : n >= Cardinality(RegionsOf(j) \cup RegionsOf(k))
       /\ \A k \in KindSet : n >= Cardinality(RegionsOf(k))

\* a summary over tables with different regions: the union is larger than
\* the region set of the enrolment table
C18_Witness ==
  /\ cleaning_report.summary # NoFn
  /\ cleaning_report.summary.unique_locations.states = 2
  /\ Cardinality(RegionsOf("enrolment")) = 1
  /\ RegionsOf("demographic") # RegionsOf("enrolment")

\* position of a kind in its pipeline
Rank(status) ==
  CASE status = "pending" -> 0
    [] status = "running" -> 1
    [] status = "merged" -> 2
    [] OTHER -> 3

\* the merge of a kind comes after the normalization of all its files, the
\* kinds follow one another, and the summary comes after the three merges
OrderedSoFar ==
  /\ \A k \in KindSet :
       progress[k].status \in {"merged", "done"} =>
         progress[k].normalized = progress[k].files
  /\ step = "save" => Len(all_data) = files /\ idx = files
  /\ entry = "run" =>
       \A i \in 1..(Len(Kinds) - 1) :
         progress[Kinds[i + 1]].status # "pending" =>
           progress[Kinds[i]].status = "done"
  /\ (pc \in {"generate_summary_stats", "save_report"}
        \/ cleaning_report.summary # NoFn \/ report_out # <<>>) =>
       \A k \in KindSet : progress[k].status = "done"

\* no step is taken again: a kind never moves back, and a file once
\* normalized stays normalized
NeverBack ==
  \A k \in KindSet :
    /\ Rank(progress[k].status') >= Rank(progress[k].status)
    /\ progress[k].status # "pending" =>
         /\ progress[k].files' = progress[k].files
         /\ progress[k].normalized' >= progress[k].normalized
         /\ progress[k].normalized' <= progress[k].normalized + 1
    /\ Rank(progress[k].status) = 3 => progress[k]' = progress[k]

\* C19: in every run the steps occur in a strict linear order: a kind's
\* merge starts only after each of its files has been normalized, the
\* summary is built only after the three merges, and no step is re-entered.
C19_StrictLinearOrder == []OrderedSoFar /\ [][NeverBack]_vars

\* a run that reached the report after normalizing a file of every kind
C19_Witness ==
  /\ entry = "run"
  /\ pc = "save_report"
  /\ \A k \in KindSet : progress[k].normalized = 1 /\ progress[k].files = 1

\* a step of a cleaner leaves the entries of the other kinds, the summary
\* and the timestamp of the report as they are
OwnEntryOnly ==
  pc = "clean" =>
    /\ DOMAIN cleaning_report'.datasets \subseteq
         DOMAIN cleaning_report.datasets \cup {kind}
    /\ \A k \in DOMAIN cleaning_report.datasets \ {kind} :
         /\ k \in DOMAIN cleaning_report'.datasets
         /\ cleaning_report'.datasets[k] = cleaning_report.datasets[k]
    /\ cleaning_report'.summary = cleaning_report.summary
    /\ cleaning_report'.timestamp = cleaning_report.timestamp

\* the tallies of a kind start from zero and, for a kind of one file, are
\* those of that file alone, whatever the kinds cleaned before left behind
OwnTalliesOnly ==
  /\ (pc = "clean" /\ step = "loop" /\ idx = 0) => stats = InitStats
  /\ (step = "save" /\ files = 1 /\ last_file # <<>>) =>
       /\ stats.total_rows = last_file[1].original_count
       /\ \A t \in Stages : stats[t] = last_file[1].added[t]
       /\ stats.rows_cleaned + stats.duplicates_removed = Len(last_file[1].rows)

\* C20: each cleaner writes only its own kind's entry of
\* cleaning_report['datasets'] and leaves the other kinds' tallies, the
\* summary and the timestamp unchanged; a kind's tallies do not depend on
\* the kinds cleaned before it.
C20_WritesOwnEntryOnly == []OwnTalliesOnly /\ [][OwnEntryOnly]_vars

\* the third cleaner has written its entry next to two different ones
C20_Witness ==
  /\ entry = "run"
  /\ DOMAIN cleaning_report.datasets = KindSet
  /\ cleaning_report.datasets["enrolment"].invalid_states = 1
  /\ cleaning_report.datasets["demographic"].invalid_states = 0
  /\ cleaning_report.datasets["biometric"].total_rows = 1

\* the cached tables an endpoint reads
Needs(endpoint) ==
  IF endpoint \in {"/metrics", "/trends", "/anomalies"} THEN CacheKeys
  ELSE {"enrollment"}

\* C13: whenever a table an endpoint needs is absent from data_cache, the
\* endpoint answers with status 503, "Data not loaded", and not with the
\* internal-error status 500.
C13_AbsentTableAnswered503 ==
  response # <<>> =>
    ((\E key \in Needs(response[1].endpoint) : key \notin DOMAIN data_cache) =>
       /\ response[1].status = 503
       /\ response[1].detail = "Data not loaded")

\* C17: no request changes data_cache: after any sequence of requests the
\* cached tables are those load_data left.
C17_RequestsLeaveCacheUnchanged ==
  [][api_pc = "serving" => data_cache' = data_cache]_vars

\* a request answered from the three loaded tables
C17_Witness ==
  /\ response # <<>>
  /\ response[1].endpoint = "/demographics"
  /\ response[1].status = 200
  /\ DOMAIN data_cache = CacheKeys
  /\ data_cache["enrollment"].rows # <<>>

\* the orders n files can be taken in
Perms(n) ==
  {p \in [1..n -> 1..n] : \A i, j \in 1..n : i # j => p[i] # p[j]}

\* C21: for one kind, the set of rows of the canonical table and every
\* tally are the same for every order in which the kind's files are
\* normalized and concatenated (and a kind that fails fails in every order).
C21_FileOrderIrrelevant ==
  (listing # <<>> /\ pc \in {"completed", "raised"}) =>
    \A p \in Perms(Len(listing[1])) :
      \A other \in {clean_kind(kind, [i \in 1..Len(listing[1]) |->
                                        listing[1][p[i]]])} :
        IF pc = "raised" THEN other.error # "none"
        ELSE /\ other.error = "none"
             /\ Range(other.df.rows) = Range(out_files[kind].rows)
             /\ other.stats = cleaning_report.datasets[kind]

\* a cleaner has merged two different files that hold the same observation
C21_Witness ==
  /\ listing # <<>>
  /\ pc = "completed"
  /\ Len(listing[1]) = 2
  /\ listing[1][1] # listing[1][2]
  /\ cleaning_report.datasets[kind].duplicates_removed = 1
  /\ cleaning_report.datasets[kind].rows_cleaned = 1

\* C22: after load_data has returned, data_cache holds the three canonical
\* tables and load_data returned True, or it holds none and load_data
\* returned False; never a part of the kinds.
C22_LoadAllOrNothing ==
  api_pc = "serving" =>
    \/ loaded /\ DOMAIN data_cache = CacheKeys
    \/ ~loaded /\ DOMAIN data_cache = {}

\* the total of column c over the rows of the cached table of a key that
\* bear the date written as text d
DayTotal(key, c, d) ==
  SumSeq([i \in 1..Len(data_cache[key].rows) |->
            IF data_cache[key].rows[i]["date"] = parse_dates(d)
                 /\ ~isna(data_cache[key].rows[i][c])
              THEN data_cache[key].rows[i][c][1] ELSE 0])

\* C23: in every successful /trends response the enrollment, demographic
\* and biometric lists have the length of the dates list, and the value at
\* position i of each is that kind's total for dates[i].
C23_TrendSeriesAligned ==
  (/\ response # <<>>
   /\ response[1].endpoint = "/trends"
   /\ response[1].status = 200) =>
     LET body == response[1].body
     IN /\ Len(body.enrollment) = Len(body.dates)
        /\ Len(body.demographic) = Len(body.dates)
        /\ Len(body.biometric) = Len(body.dates)
        /\ \A i \in 1..Len(body.dates) :
             /\ body.enrollment[i] =
                  DayTotal("enrollment", "total_enrollments", body.dates[i])
             /\ body.demographic[i] =
                  DayTotal("demographic", "total_demographic_updates", body.dates[i])
             /\ body.biometric[i] =
                  DayTotal("biometric", "total_biometric_updates", body.dates[i])

====
